---------------------------- MODULE Spec2Model ----------------------------
(***************************************************************************)
(* Model of examples/z_queryable_with_channels.c: a queryable whose        *)
(* delivery callback (query_handler, run by the substrate's delivery       *)
(* thread) clones each incoming query into a bounded FIFO channel, and a   *)
(* main thread that pops the queries one at a time, prints them, replies   *)
(* and releases them, then tears down.                                     *)
(*                                                                         *)
(* The channel (zc_query_fifo_new and its send/recv closures) and the rest *)
(* of the zenoh API are not part of the example's source: the channel is   *)
(* modelled from the specification (section 4.1), the other calls by the   *)
(* results the example tests for.                                          *)
(***************************************************************************)
EXTENDS Integers, Sequences, FiniteSets, TLC

\* ------------------------------------------------------------------ bounds

\* Number of queries the substrate delivers in one run.
MaxQueries == 2

\* Number of queries the substrate delivers in a burst: enough to fill the
\* channel while the loop holds one query and the callback another.
MaxBurst == 18

\* ------------------------------------------------------- program constants

\* zc_query_fifo_new(&channel, 16)
Capacity == 16

\* const char *keyexpr = "demo/example/zenoh-c-queryable";
DefaultKeyexpr == "demo/example/zenoh-c-queryable"

\* const char *value = "Queryable from C!";
value == "Queryable from C!"

\* ------------------------------------------------------------- the inputs

\* argv[1] when given: a key-expression that other key-expressions match.
ArgKeyexprs == {"demo/example/**"}

\* Key-expressions carried by incoming queries.
QueryKeyexprs == {"demo/example/zenoh-c-queryable", "demo/example/other"}

\* Parameter strings carried by incoming queries.
QueryParams == {"p=1"}

\* A query's value: absent, present with zero-length payload, present with
\* a non-empty payload.
QueryValues ==
    { [present |-> FALSE, bytes |-> <<>>],
      [present |-> TRUE,  bytes |-> <<>>],
      [present |-> TRUE,  bytes |-> <<"v">>] }

\* Whether a query on key-expression qk is routed to a queryable declared
\* on key-expression k (the substrate's matching).
Matches(qk, k) ==
    \/ qk = k
    \/ k = "demo/example/**"

\* The gravestone value of z_owned_query_t: z_check is false on it.
NullQuery ==
    [id |-> 0, keyexpr |-> "", params |-> "",
     val |-> [present |-> FALSE, bytes |-> <<>>]]

\* z_check(oquery)
z_check(q) == q.id # 0

\* z_bytes_len(z_value_payload(z_query_value(query))): an absent value has
\* a zero-length payload.
z_bytes_len(q) == Len(q.val.bytes)

VARIABLES
    argc,       \* number of command-line words (1: none, 2: key, 3: key and endpoint)
    argv1,      \* argv[1] when argc > 1
    onFull,     \* what the channel's push does on a full queue: "block" or "drop"
    status,     \* "running", "exited" (exit or return from main), "killed" (signal)
    exitCode,   \* << >> while running, <<code>> once exited
    pc,         \* the main thread's position
    rcs,        \* the set-up calls made and what each returned, in order
    keyexpr,    \* the global keyexpr
    ke,         \* the global view key-expression ("" while unset)
    s,          \* the session: "none", "open", "closed"
    channel,    \* the query channel: "none", "open", "closed"
    queue,      \* the channel's entries, oldest first
    qable,      \* the queryable: "none", "declared", "undeclared"
    oquery,     \* main's z_owned_query_t
    stdout,     \* the lines the loop printed, one per query
    replies,    \* the z_query_reply calls, in order
    calls,      \* the main thread's calls on queries and handles, in order
    popped,     \* the queries the loop received from the channel, in order
    hpc,        \* query_handler's position: "idle", "clone", "call"
    hquery,     \* the loaned query the handler was invoked with
    hclone,     \* query_handler's local oquery
    arrived,    \* queries delivered to the callback so far
    pushed,     \* ids of the queries the channel accepted, in order
    released,   \* ids of the clones released (z_drop, or dropped by the channel)
    cpc,        \* helpers.cmake: the position in the command being run
    cargs,      \* helpers.cmake: the command called and its arguments
    cvars,      \* helpers.cmake: the variables defined in the current scope
    cparent,    \* helpers.cmake: the variables set in the parent scope
    cbefore,    \* helpers.cmake: cvars as it was when the command was called
    cout        \* helpers.cmake: the messages printed, in order

\* The state of z_queryable_with_channels.
programVars ==
    << argc, argv1, onFull, status, exitCode, pc, rcs, keyexpr, ke, s,
       channel, queue, qable, oquery, stdout, replies, calls, popped, hpc,
       hquery, hclone, arrived, pushed, released >>

\* The state of a run of helpers.cmake.
cmakeVars == << cpc, cargs, cvars, cparent, cbefore, cout >>

vars == << programVars, cmakeVars >>

handlerVars == << hpc, hquery, hclone, arrived >>

inputVars == << argc, argv1, onFull >>

\* No command of helpers.cmake is being run.
CMakeIdle ==
    /\ cpc = "idle"
    /\ cargs = [fn |-> "none"]
    /\ cvars = << >>
    /\ cparent = << >>
    /\ cbefore = << >>
    /\ cout = << >>

\* The example program at its start.
ProgramInit ==
    /\ argc \in 1..3
    /\ argv1 \in (IF argc > 1 THEN ArgKeyexprs ELSE {""})
    /\ onFull \in {"block", "drop"}
    /\ status = "running"
    /\ exitCode = << >>
    /\ pc = "args"
    /\ rcs = << >>
    /\ keyexpr = DefaultKeyexpr
    /\ ke = ""
    /\ s = "none"
    /\ channel = "none"
    /\ queue = << >>
    /\ qable = "none"
    /\ oquery = NullQuery
    /\ stdout = << >>
    /\ replies = << >>
    /\ calls = << >>
    /\ popped = << >>
    /\ hpc = "idle"
    /\ hquery = NullQuery
    /\ hclone = NullQuery
    /\ arrived = 0
    /\ pushed = << >>
    /\ released = {}

Init == ProgramInit /\ CMakeIdle

\* ---------------------------------------------------------- main: set-up

\* exit(code), and `return code` from main
Exit(code) ==
    /\ status' = "exited"
    /\ exitCode' = << code >>

\* One call of the main thread on a handle or a query, as recorded in calls.
Call(op, id) == [op |-> op, id |-> id]

\* if (argc > 1) keyexpr = argv[1]; z_config_default(&config); if (argc > 2)
ParseArgs ==
    /\ status = "running" /\ pc = "args"
    /\ keyexpr' = IF argc > 1 THEN argv1 ELSE keyexpr
    /\ pc' = IF argc > 2 THEN "insert_json" ELSE "open"
    /\ UNCHANGED << cmakeVars, inputVars, rcs, handlerVars, status, exitCode, ke, s, channel,
                    queue, qable, oquery, stdout, replies, calls, popped,
                    pushed, released >>

\* Mutant of OnResult: the result of the set-up call is not looked at.
OnResultIgnored(rc, next) ==
    /\ pc' = next
    /\ UNCHANGED << status, exitCode >>

\* A set-up call returned rc: the example exits with -1 when rc < 0 and goes
\* on to the next step otherwise.
OnResult(rc, next) ==
    IF rc < 0
    THEN /\ Exit(-1)
         /\ pc' = pc
    ELSE /\ pc' = next
         /\ UNCHANGED << status, exitCode >>

\* zc_config_insert_json(z_loan_mut(config), Z_CONFIG_CONNECT_KEY, argv[2])
ConfigInsertJson ==
    /\ status = "running" /\ pc = "insert_json"
    /\ \E rc \in {0, -1} :
         /\ OnResult(rc, "open")
         /\ rcs' = Append(rcs, [step |-> pc, rc |-> rc])
    /\ UNCHANGED << cmakeVars, inputVars, handlerVars, keyexpr, ke, s, channel, queue,
                    qable, oquery, stdout, replies, calls, popped, pushed,
                    released >>

\* z_open(&s, z_move(config))
OpenSession ==
    /\ status = "running" /\ pc = "open"
    /\ \E rc \in {0, -1} :
         /\ OnResult(rc, "keyexpr")
         /\ rcs' = Append(rcs, [step |-> pc, rc |-> rc])
         /\ s' = IF rc < 0 THEN s ELSE "open"
         /\ calls' = IF rc < 0 THEN calls ELSE Append(calls, Call("z_open", 0))
    /\ UNCHANGED << cmakeVars, inputVars, handlerVars, keyexpr, ke, channel, queue, qable,
                    oquery, stdout, replies, popped, pushed, released >>

\* z_view_keyexpr_from_string(&ke, keyexpr)
ViewKeyexpr ==
    /\ status = "running" /\ pc = "keyexpr"
    /\ \E rc \in {0, -1} :
         /\ OnResult(rc, "fifo_new")
         /\ rcs' = Append(rcs, [step |-> pc, rc |-> rc])
         /\ ke' = IF rc < 0 THEN ke ELSE keyexpr
    /\ UNCHANGED << cmakeVars, inputVars, handlerVars, keyexpr, s, channel, queue, qable,
                    oquery, stdout, replies, calls, popped, pushed, released >>

\* zc_query_fifo_new(&channel, 16); z_closure(&callback, query_handler, NULL,
\* (void*)&channel.send)
FifoNew ==
    /\ status = "running" /\ pc = "fifo_new"
    /\ channel' = "open"
    /\ queue' = << >>
    /\ pc' = "declare"
    /\ UNCHANGED << cmakeVars, inputVars, rcs, handlerVars, status, exitCode, keyexpr, ke, s,
                    qable, oquery, stdout, replies, calls, popped, pushed,
                    released >>

\* z_declare_queryable(&qable, z_loan(s), z_loan(ke), z_move(callback), NULL)
DeclareQueryable ==
    /\ status = "running" /\ pc = "declare"
    /\ \E rc \in {0, -1} :
         /\ OnResult(rc, "recv")
         /\ rcs' = Append(rcs, [step |-> pc, rc |-> rc])
         /\ qable' = IF rc < 0 THEN qable ELSE "declared"
         /\ calls' = IF rc < 0 THEN calls
                     ELSE Append(calls, Call("z_declare_queryable", 0))
    /\ UNCHANGED << cmakeVars, inputVars, handlerVars, keyexpr, ke, s, channel, queue,
                    oquery, stdout, replies, popped, pushed, released >>

\* ------------------------------------------------- the query channel (4.1)

\* Mutant of Enqueue: q joins at the head.
EnqueueAtHead(qu, q) == << q >> \o qu

\* The entries after push(q): q joins at the tail.
Enqueue(qu, q) == Append(qu, q)

\* pop() can return: an entry is available, or the channel is closed.
CanRecv(ch, qu) == ch = "closed" \/ qu # << >>

\* What pop() returns: the end marker once the channel is closed, the oldest
\* entry otherwise.
RecvResult(ch, qu) == IF ch = "closed" THEN NullQuery ELSE Head(qu)

\* The entries left after pop().
AfterRecv(ch, qu) == IF ch = "closed" THEN qu ELSE Tail(qu)

\* Mutant of CanSend: push() returns only when the entry is taken.
CanSendWithRoom(ch, qu) == ch = "open" /\ Len(qu) < Capacity

\* push(q) can return: there is room, the channel is closed (the entry is
\* refused), or a full channel drops instead of blocking.
CanSend(ch, qu) == ch # "open" \/ Len(qu) < Capacity \/ onFull = "drop"

\* Mutant of Accepts: an open channel takes every entry.
AcceptsUnbounded(ch, qu) == ch = "open"

\* push(q) takes q into the queue (otherwise it releases it).
Accepts(ch, qu) == ch = "open" /\ Len(qu) < Capacity

\* The ids of the entries of a queue.
Ids(qu) == { qu[i].id : i \in 1..Len(qu) }

\* The channel is closed from outside the main thread (process shutdown):
\* pending and future pop() calls return the end marker.
CloseChannel ==
    /\ status = "running" /\ channel = "open"
    /\ channel' = "closed"
    /\ UNCHANGED << cmakeVars, inputVars, rcs, handlerVars, status, exitCode, pc, keyexpr, ke,
                    s, queue, qable, oquery, stdout, replies, calls, popped,
                    pushed, released >>

\* ------------------------------------------------ main: consumption loop

\* Mutant of LoopCondition: the loop goes on whatever pop() returned.
LoopConditionAlways(q) == TRUE

\* The loop condition: z_check(oquery)
LoopCondition(q) == z_check(q)

\* z_call(z_loan(channel.recv), &oquery); z_check(oquery)
Recv ==
    /\ status = "running" /\ pc = "recv"
    /\ CanRecv(channel, queue)
    /\ LET q == RecvResult(channel, queue) IN
         /\ oquery' = q
         /\ queue' = AfterRecv(channel, queue)
         /\ IF LoopCondition(q)
            THEN /\ pc' = "print"
                 /\ popped' = Append(popped, q)
                 /\ calls' = Append(calls, Call("recv", q.id))
            ELSE /\ pc' = "undeclare"
                 /\ UNCHANGED << popped, calls >>
    /\ UNCHANGED << cmakeVars, inputVars, rcs, handlerVars, status, exitCode, keyexpr, ke, s,
                    channel, qable, stdout, replies, pushed, released >>

\* Mutant of PrintLine: the value is printed whenever the query has one.
PrintLineIfPresent(q) ==
    IF q.val.present
    THEN << ">> [Queryable ] Received Query", q.keyexpr, q.params,
            "with value", q.val.bytes >>
    ELSE << ">> [Queryable ] Received Query", q.keyexpr, q.params >>

\* The line printed for a query: its key-expression, its parameters and,
\* if (z_bytes_len(payload) > 0), its payload decoded into a string.
PrintLine(q) ==
    IF z_bytes_len(q) > 0
    THEN << ">> [Queryable ] Received Query", q.keyexpr, q.params,
            "with value", q.val.bytes >>
    ELSE << ">> [Queryable ] Received Query", q.keyexpr, q.params >>

\* Mutant of PrintQuery: after printing, the loop goes back to pop().
PrintQueryThenRecv ==
    /\ status = "running" /\ pc = "print"
    /\ stdout' = Append(stdout, PrintLine(oquery))
    /\ pc' = "recv"
    /\ UNCHANGED << cmakeVars, inputVars, rcs, handlerVars, status, exitCode,
                    keyexpr, ke, s, channel, queue, qable, oquery, replies,
                    calls, popped, pushed, released >>

\* z_keyexpr_to_string ... printf(">> [Queryable ] Received Query ...")
PrintQuery ==
    /\ status = "running" /\ pc = "print"
    /\ stdout' = Append(stdout, PrintLine(oquery))
    /\ pc' = "reply"
    /\ UNCHANGED << cmakeVars, inputVars, rcs, handlerVars, status, exitCode, keyexpr, ke, s,
                    channel, queue, qable, oquery, replies, calls, popped,
                    pushed, released >>

\* Mutant of ReplyKeyexpr: the reply goes to z_query_keyexpr(query).
ReplyOnQueryKeyexpr(q) == q.keyexpr

\* The key-expression z_query_reply is given: z_loan(ke)
ReplyKeyexpr(q) == ke

\* Mutant of Reply: the query is released without a reply.
ReplyOmitted ==
    /\ status = "running" /\ pc = "reply"
    /\ pc' = "drop"
    /\ UNCHANGED << cmakeVars, inputVars, rcs, handlerVars, status, exitCode, keyexpr,
                    ke, s, channel, queue, qable, oquery, stdout, replies,
                    calls, popped, pushed, released >>

\* Mutant of Reply: a reply that fails ends the program, as a set-up call
\* that fails does.
ReplyFatal ==
    /\ status = "running" /\ pc = "reply"
    /\ \E rc \in {0, -1} :
         /\ replies' = Append(replies, [id |-> oquery.id,
                                        keyexpr |-> ReplyKeyexpr(oquery),
                                        payload |-> value,
                                        rc |-> rc])
         /\ OnResult(rc, "drop")
    /\ calls' = Append(calls, Call("z_query_reply", oquery.id))
    /\ UNCHANGED << cmakeVars, inputVars, rcs, handlerVars, keyexpr, ke, s,
                    channel, queue, qable, oquery, stdout, popped, pushed,
                    released >>

\* z_bytes_encode_from_string(&reply_payload, value);
\* z_query_reply(query, z_loan(ke), z_move(reply_payload), &options);
\* the result of z_query_reply is not looked at.
Reply ==
    /\ status = "running" /\ pc = "reply"
    /\ \E rc \in {0, -1} :
         replies' = Append(replies, [id |-> oquery.id,
                                     keyexpr |-> ReplyKeyexpr(oquery),
                                     payload |-> value,
                                     rc |-> rc])
    /\ calls' = Append(calls, Call("z_query_reply", oquery.id))
    /\ pc' = "drop"
    /\ UNCHANGED << cmakeVars, inputVars, rcs, handlerVars, status, exitCode, keyexpr, ke, s,
                    channel, queue, qable, oquery, stdout, popped, pushed,
                    released >>

\* z_drop(z_move(oquery))
DropQuery ==
    /\ status = "running" /\ pc = "drop"
    /\ released' = released \cup {oquery.id}
    /\ calls' = Append(calls, Call("z_drop", oquery.id))
    /\ oquery' = NullQuery
    /\ pc' = "recv"
    /\ UNCHANGED << cmakeVars, inputVars, rcs, handlerVars, status, exitCode, keyexpr, ke, s,
                    channel, queue, qable, stdout, replies, popped, pushed >>

\* ------------------------------------------------------- main: teardown

\* Mutant of UndeclareQueryable: the session is closed in its place.
CloseInsteadOfUndeclare ==
    /\ status = "running" /\ pc = "undeclare"
    /\ s' = "closed"
    /\ calls' = Append(calls, Call("z_close", 0))
    /\ pc' = "drop_channel"
    /\ UNCHANGED << cmakeVars, inputVars, rcs, handlerVars, status, exitCode, keyexpr,
                    ke, channel, queue, qable, oquery, stdout, replies,
                    popped, pushed, released >>

\* z_undeclare_queryable(z_move(qable))
UndeclareQueryable ==
    /\ status = "running" /\ pc = "undeclare"
    /\ qable' = "undeclared"
    /\ calls' = Append(calls, Call("z_undeclare_queryable", 0))
    /\ pc' = "drop_channel"
    /\ UNCHANGED << cmakeVars, inputVars, rcs, handlerVars, status, exitCode, keyexpr, ke, s,
                    channel, queue, oquery, stdout, replies, popped, pushed,
                    released >>

\* z_drop(z_move(channel)): the channel is closed and its entries released
DropChannel ==
    /\ status = "running" /\ pc = "drop_channel"
    /\ channel' = "closed"
    /\ released' = released \cup Ids(queue)
    /\ queue' = << >>
    /\ pc' = "close"
    /\ UNCHANGED << cmakeVars, inputVars, rcs, handlerVars, status, exitCode, keyexpr, ke, s,
                    qable, oquery, stdout, replies, calls, popped, pushed >>

\* z_close(z_move(s))
CloseSession ==
    /\ status = "running" /\ pc = "close"
    /\ s' = "closed"
    /\ calls' = Append(calls, Call("z_close", 0))
    /\ pc' = "return"
    /\ UNCHANGED << cmakeVars, inputVars, rcs, handlerVars, status, exitCode, keyexpr, ke,
                    channel, queue, qable, oquery, stdout, replies, popped,
                    pushed, released >>

\* return 0;
Return ==
    /\ status = "running" /\ pc = "return"
    /\ Exit(0)
    /\ UNCHANGED << cmakeVars, inputVars, rcs, handlerVars, pc, keyexpr, ke, s, channel, queue,
                    qable, oquery, stdout, replies, calls, popped, pushed,
                    released >>

\* The operator's ^C: main installs no signal handler, so SIGINT ends the
\* process where it stands.
Interrupt ==
    /\ status = "running"
    /\ status' = "killed"
    /\ UNCHANGED << cmakeVars, inputVars, rcs, handlerVars, exitCode, pc, keyexpr, ke, s,
                    channel, queue, qable, oquery, stdout, replies, calls,
                    popped, pushed, released >>

\* ------------------------------------------------ the delivery thread

\* The substrate invokes the queryable's callback with an incoming query
\* that matches the declared key-expression.
Deliver ==
    /\ status = "running" /\ qable = "declared" /\ hpc = "idle"
    /\ arrived < MaxQueries
    /\ \E k \in QueryKeyexprs, p \in QueryParams, v \in QueryValues :
         /\ Matches(k, ke)
         /\ hquery' = [id |-> arrived + 1, keyexpr |-> k, params |-> p,
                       val |-> v]
    /\ arrived' = arrived + 1
    /\ hpc' = "clone"
    /\ UNCHANGED << cmakeVars, inputVars, rcs, status, exitCode, pc, keyexpr, ke, s, channel,
                    queue, qable, oquery, stdout, replies, calls, popped,
                    hclone, pushed, released >>

\* z_query_clone(query, &oquery)
HandlerClone ==
    /\ status = "running" /\ hpc = "clone"
    /\ hclone' = hquery
    /\ hpc' = "call"
    /\ UNCHANGED << cmakeVars, inputVars, rcs, status, exitCode, pc, keyexpr, ke, s, channel,
                    queue, qable, oquery, stdout, replies, calls, popped,
                    hquery, arrived, pushed, released >>

\* Mutant of HandlerCall: the clone is pushed twice.
HandlerCallTwice ==
    /\ status = "running" /\ hpc = "call"
    /\ channel = "open" /\ Len(queue) + 1 < Capacity
    /\ queue' = Enqueue(Enqueue(queue, hclone), hclone)
    /\ pushed' = Append(pushed, hclone.id)
    /\ hclone' = NullQuery
    /\ hquery' = NullQuery
    /\ hpc' = "idle"
    /\ UNCHANGED << cmakeVars, inputVars, rcs, status, exitCode, pc, keyexpr, ke, s,
                    channel, qable, oquery, stdout, replies, calls, popped,
                    arrived, released >>

\* z_call(z_loan(*channel), &oquery), and the return of query_handler
HandlerCall ==
    /\ status = "running" /\ hpc = "call"
    /\ CanSend(channel, queue)
    /\ IF Accepts(channel, queue)
       THEN /\ queue' = Enqueue(queue, hclone)
            /\ pushed' = Append(pushed, hclone.id)
            /\ UNCHANGED released
       ELSE /\ released' = released \cup {hclone.id}
            /\ UNCHANGED << queue, pushed >>
    /\ hclone' = NullQuery
    /\ hquery' = NullQuery
    /\ hpc' = "idle"
    /\ UNCHANGED << cmakeVars, inputVars, rcs, status, exitCode, pc, keyexpr, ke, s, channel,
                    qable, oquery, stdout, replies, calls, popped, arrived >>

\* ------------------------------------------------------ specification

\* The steps of the main thread.
Main ==
    \/ ParseArgs
    \/ ConfigInsertJson
    \/ OpenSession
    \/ ViewKeyexpr
    \/ FifoNew
    \/ DeclareQueryable
    \/ Recv
    \/ PrintQuery
    \/ Reply
    \/ DropQuery
    \/ UndeclareQueryable
    \/ DropChannel
    \/ CloseSession
    \/ Return

\* The steps of query_handler on the delivery thread.
query_handler ==
    \/ Deliver
    \/ HandlerClone
    \/ HandlerCall

Next ==
    \/ Main
    \/ query_handler
    \/ CloseChannel
    \/ Interrupt

Spec == Init /\ [][Next]_vars

\* ------------------------------------------ a burst of queries of one kind

\* The substrate delivers a burst of queries of one kind, as many as
\* MaxBurst: enough to fill the channel when the loop is slow.
DeliverBurst ==
    /\ status = "running" /\ qable = "declared" /\ hpc = "idle"
    /\ arrived < MaxBurst
    /\ Matches(DefaultKeyexpr, ke)
    /\ hquery' = [id |-> arrived + 1, keyexpr |-> DefaultKeyexpr,
                  params |-> "p=1",
                  val |-> [present |-> TRUE, bytes |-> << "v" >>]]
    /\ arrived' = arrived + 1
    /\ hpc' = "clone"
    /\ UNCHANGED << cmakeVars, inputVars, rcs, status, exitCode, pc, keyexpr,
                    ke, s, channel, queue, qable, oquery, stdout, replies,
                    calls, popped, hclone, pushed, released >>

\* z_query_reply(query, z_loan(ke), z_move(reply_payload), &options), in a
\* run where the substrate delivers every reply.
ReplyDelivered ==
    /\ status = "running" /\ pc = "reply"
    /\ replies' = Append(replies, [id |-> oquery.id,
                                   keyexpr |-> ReplyKeyexpr(oquery),
                                   payload |-> value,
                                   rc |-> 0])
    /\ calls' = Append(calls, Call("z_query_reply", oquery.id))
    /\ pc' = "drop"
    /\ UNCHANGED << cmakeVars, inputVars, rcs, handlerVars, status, exitCode,
                    keyexpr, ke, s, channel, queue, qable, oquery, stdout,
                    popped, pushed, released >>

\* The example started without arguments.
BurstInit ==
    /\ Init
    /\ argc = 1

\* The example under a burst: no operator interrupt, every reply delivered.
BurstNext ==
    \/ ParseArgs
    \/ OpenSession
    \/ ViewKeyexpr
    \/ FifoNew
    \/ DeclareQueryable
    \/ Recv
    \/ PrintQuery
    \/ ReplyDelivered
    \/ DropQuery
    \/ UndeclareQueryable
    \/ DropChannel
    \/ CloseSession
    \/ Return
    \/ DeliverBurst
    \/ HandlerClone
    \/ HandlerCall
    \/ CloseChannel

BurstSpec == BurstInit /\ [][BurstNext]_vars

\* ----------------------------------------------------------- helpers.cmake

\* Directories a project, a subproject and their build trees may be in.
Dirs == {"/p", "/p/build", "/p/sub", "/p/sub/build", "/q"}

\* The names a caller passes to check_project_usage for its two results.
OutputNames == {"IS_ROOT", "IS_IDE"}

\* ${name}: the value of a variable, empty when it is not defined.
Value(scope, name) == IF name \in DOMAIN scope THEN scope[name] ELSE ""

\* set(name value) with an unquoted value: an empty value leaves no
\* argument after the name, which unsets the variable.
SetVar(scope, name, val) ==
    IF val = ""
    THEN [ k \in DOMAIN scope \ {name} |-> scope[k] ]
    ELSE (name :> val) @@ scope

\* An unquoted operand of if(): the value of the variable of that name when
\* one is defined, the operand itself otherwise.
IfOperand(scope, arg) == IF arg \in DOMAIN scope THEN scope[arg] ELSE arg

\* message(mode text)
Message(mode, text) == [mode |-> mode, text |-> text]

\* check_project_usage(is_root is_ide) is called, in a scope where CMake has
\* set the directory variables.
CallCheckProjectUsage ==
    \E src \in {"/p", "/q"}, cur \in Dirs, bin \in Dirs :
      \E r \in OutputNames, i \in OutputNames :
        /\ r # i
        /\ cargs = [fn |-> "check_project_usage", is_root |-> r, is_ide |-> i]
        /\ cvars = [CMAKE_SOURCE_DIR |-> src,
                    CMAKE_CURRENT_SOURCE_DIR |-> cur,
                    CMAKE_CURRENT_BINARY_DIR |-> bin]
        /\ cbefore = cvars
        /\ cparent = << >>
        /\ cout = << >>
        /\ cpc = "usage_8"

\* set(${is_root} FALSE PARENT_SCOPE)
UsageClearRoot ==
    /\ cpc = "usage_8"
    /\ cparent' = SetVar(cparent, cargs.is_root, "FALSE")
    /\ cpc' = "usage_9"
    /\ UNCHANGED << programVars, cargs, cvars, cbefore, cout >>

\* set(${is_ide} FALSE PARENT_SCOPE)
UsageClearIde ==
    /\ cpc = "usage_9"
    /\ cparent' = SetVar(cparent, cargs.is_ide, "FALSE")
    /\ cpc' = "usage_10"
    /\ UNCHANGED << programVars, cargs, cvars, cbefore, cout >>

\* if(${CMAKE_SOURCE_DIR} STREQUAL ${CMAKE_CURRENT_SOURCE_DIR})
IsRootCondition(scope) ==
    IfOperand(scope, Value(scope, "CMAKE_SOURCE_DIR"))
      = IfOperand(scope, Value(scope, "CMAKE_CURRENT_SOURCE_DIR"))

\* Mutant of UsageRoot: the test of the build directory is not nested in
\* the test of the source directory.
UsageRootNotNested ==
    /\ cpc = "usage_10"
    /\ cparent' = IF IsRootCondition(cvars)
                  THEN SetVar(cparent, cargs.is_root, "TRUE")
                  ELSE cparent
    /\ cpc' = "usage_12"
    /\ UNCHANGED << programVars, cargs, cvars, cbefore, cout >>

\* if(${CMAKE_SOURCE_DIR} STREQUAL ...) set(${is_root} TRUE PARENT_SCOPE)
UsageRoot ==
    /\ cpc = "usage_10"
    /\ IF IsRootCondition(cvars)
       THEN /\ cparent' = SetVar(cparent, cargs.is_root, "TRUE")
            /\ cpc' = "usage_12"
       ELSE /\ cpc' = "done"
            /\ UNCHANGED cparent
    /\ UNCHANGED << programVars, cargs, cvars, cbefore, cout >>

\* if(CMAKE_CURRENT_BINARY_DIR STREQUAL "${CMAKE_CURRENT_SOURCE_DIR}/build")
IsIdeCondition(scope) ==
    IfOperand(scope, "CMAKE_CURRENT_BINARY_DIR")
      = Value(scope, "CMAKE_CURRENT_SOURCE_DIR") \o "/build"

\* if(CMAKE_CURRENT_BINARY_DIR STREQUAL ...) set(${is_ide} TRUE PARENT_SCOPE)
UsageIde ==
    /\ cpc = "usage_12"
    /\ cparent' = IF IsIdeCondition(cvars)
                  THEN SetVar(cparent, cargs.is_ide, "TRUE")
                  ELSE cparent
    /\ cpc' = "done"
    /\ UNCHANGED << programVars, cargs, cvars, cbefore, cout >>

\* The steps of check_project_usage.
check_project_usage ==
    \/ UsageClearRoot
    \/ UsageClearIde
    \/ UsageRoot
    \/ UsageIde

\* Generators the project may be configured with.
Generators == {"Ninja Multi-Config", "Xcode", "Unix Makefiles"}

\* The global property GENERATOR_IS_MULTI_CONFIG of a generator.
GeneratorIsMultiConfig(gen) ==
    IF gen \in {"Ninja Multi-Config", "Xcode"} THEN "TRUE" ELSE "FALSE"

\* Values the user may have given CMAKE_BUILD_TYPE, when it is defined.
UserBuildTypes == {"", "Debug", "Release", "debug"}

\* Values of config_type a project may call set_default_build_type with.
DefaultBuildTypes == {"", "Release", "RelWithDebInfo"}

\* Values of CMAKE_CONFIGURATION_TYPES, as lists.
ConfigurationTypes ==
    { << "Debug", "Release" >>, << "Debug", "Release", "RelWithDebInfo" >> }

\* if(variable): whether the value of a variable counts as true.
IfTrue(scope, name) == Value(scope, name) \in {"TRUE", "ON", "YES", "Y", "1"}

\* list(FIND list value n): the index of value in the list, counted from 0,
\* or -1.
ListFind(list, val) ==
    IF \E i \in 1..Len(list) : list[i] = val
    THEN (CHOOSE i \in 1..Len(list) :
            /\ list[i] = val
            /\ \A j \in 1..(i - 1) : list[j] # val) - 1
    ELSE -1

\* status_print(var): message(STATUS "${var} = ${${var}}")
StatusPrint(scope, var) ==
    Message("STATUS", var \o " = " \o Value(scope, var))

\* set_default_build_type(config_type) is called: the macro runs in the
\* scope of its caller. CMAKE_BUILD_TYPE is defined or not, and
\* CMAKE_CONFIGURATION_TYPES is defined for the multi-config generators.
CallSetDefaultBuildType ==
    \E gen \in Generators, t \in DefaultBuildTypes :
      \E types \in ConfigurationTypes, defined \in BOOLEAN :
        \E bt \in UserBuildTypes :
          /\ cargs = [fn |-> "set_default_build_type", config_type |-> t,
                      is_multi_config |-> GeneratorIsMultiConfig(gen)]
          /\ cvars =
               (IF defined THEN ("CMAKE_BUILD_TYPE" :> bt) ELSE << >>)
               @@ (IF GeneratorIsMultiConfig(gen) = "TRUE"
                   THEN ("CMAKE_CONFIGURATION_TYPES" :> types)
                   ELSE << >>)
               @@ ("CMAKE_GENERATOR" :> gen)
          /\ cbefore = cvars
          /\ cparent = << >>
          /\ cout = << >>
          /\ cpc = "build_51"

\* get_property(GENERATOR_IS_MULTI_CONFIG GLOBAL PROPERTY
\* GENERATOR_IS_MULTI_CONFIG); if(GENERATOR_IS_MULTI_CONFIG)
BuildGetProperty ==
    /\ cpc = "build_51"
    /\ cvars' = SetVar(cvars, "GENERATOR_IS_MULTI_CONFIG",
                       cargs.is_multi_config)
    /\ cpc' = IF IfTrue(cvars', "GENERATOR_IS_MULTI_CONFIG")
              THEN "build_53" ELSE "build_69"
    /\ UNCHANGED << programVars, cargs, cparent, cbefore, cout >>

\* Mutant of MultiDefaultCondition: the build type is tested for being
\* empty, as it is for the single-config generators.
MultiDefaultConditionEmpty(scope) == Value(scope, "CMAKE_BUILD_TYPE") = ""

\* if(NOT DEFINED CMAKE_BUILD_TYPE)
MultiDefaultCondition(scope) == "CMAKE_BUILD_TYPE" \notin DOMAIN scope

\* if(NOT DEFINED CMAKE_BUILD_TYPE) set(CMAKE_BUILD_TYPE ${config_type})
BuildMultiDefault ==
    /\ cpc = "build_53"
    /\ cvars' = IF MultiDefaultCondition(cvars)
                THEN SetVar(cvars, "CMAKE_BUILD_TYPE", cargs.config_type)
                ELSE cvars
    /\ cpc' = "build_56"
    /\ UNCHANGED << programVars, cargs, cparent, cbefore, cout >>

\* list(FIND CMAKE_CONFIGURATION_TYPES ${CMAKE_BUILD_TYPE} n): an empty
\* ${CMAKE_BUILD_TYPE} leaves the command one argument short, which is an
\* error that stops the configuration.
BuildListFind ==
    /\ cpc = "build_56"
    /\ IF Value(cvars, "CMAKE_BUILD_TYPE") = ""
       THEN /\ cout' = Append(cout, Message("FATAL_ERROR",
                         "list sub-command FIND requires three arguments."))
            /\ cpc' = "fatal"
            /\ UNCHANGED cvars
       ELSE /\ cvars' = ("n" :> ListFind(cvars["CMAKE_CONFIGURATION_TYPES"],
                                         Value(cvars, "CMAKE_BUILD_TYPE")))
                        @@ cvars
            /\ cpc' = "build_57"
            /\ UNCHANGED cout
    /\ UNCHANGED << programVars, cargs, cparent, cbefore >>

\* if(n LESS 0) message(FATAL_ERROR ...) else() if(CMAKE_GENERATOR STREQUAL
\* "Ninja Multi-Config") set(CMAKE_DEFAULT_BUILD_TYPE ${CMAKE_BUILD_TYPE})
\* status_print(CMAKE_DEFAULT_BUILD_TYPE) else() message(STATUS ...)
BuildCheck ==
    /\ cpc = "build_57"
    /\ IF cvars["n"] < 0
       THEN /\ cout' = Append(cout, Message("FATAL_ERROR",
                         "Configuration " \o Value(cvars, "CMAKE_BUILD_TYPE")
                           \o " is not in CMAKE_CONFIGURATION_TYPES"))
            /\ cpc' = "fatal"
            /\ UNCHANGED cvars
       ELSE /\ cpc' = "done"
            /\ IF IfOperand(cvars, "CMAKE_GENERATOR") = "Ninja Multi-Config"
               THEN /\ cvars' = SetVar(cvars, "CMAKE_DEFAULT_BUILD_TYPE",
                                       Value(cvars, "CMAKE_BUILD_TYPE"))
                    /\ cout' = Append(cout,
                          StatusPrint(cvars', "CMAKE_DEFAULT_BUILD_TYPE"))
               ELSE /\ cout' = cout \o
                         << Message("STATUS",
                              "Default build type is not supported for generator '"
                                \o Value(cvars, "CMAKE_GENERATOR") \o "'"),
                            Message("STATUS",
                              "use cmake --build . --config "
                                \o cargs.config_type) >>
                    /\ UNCHANGED cvars
    /\ UNCHANGED << programVars, cargs, cparent, cbefore >>

\* if(CMAKE_BUILD_TYPE STREQUAL "")
SingleDefaultCondition(scope) == IfOperand(scope, "CMAKE_BUILD_TYPE") = ""

\* if(CMAKE_BUILD_TYPE STREQUAL "") set(CMAKE_BUILD_TYPE ${config_type})
BuildSingleDefault ==
    /\ cpc = "build_69"
    /\ cvars' = IF SingleDefaultCondition(cvars)
                THEN SetVar(cvars, "CMAKE_BUILD_TYPE", cargs.config_type)
                ELSE cvars
    /\ cpc' = "build_72"
    /\ UNCHANGED << programVars, cargs, cparent, cbefore, cout >>

\* status_print(CMAKE_BUILD_TYPE)
BuildStatusPrint ==
    /\ cpc = "build_72"
    /\ cout' = Append(cout, StatusPrint(cvars, "CMAKE_BUILD_TYPE"))
    /\ cpc' = "done"
    /\ UNCHANGED << programVars, cargs, cvars, cparent, cbefore >>

\* The steps of set_default_build_type.
set_default_build_type ==
    \/ BuildGetProperty
    \/ BuildMultiDefault
    \/ BuildListFind
    \/ BuildCheck
    \/ BuildSingleDefault
    \/ BuildStatusPrint

\* A command of helpers.cmake is called; the example program is not run.
CMakeInit ==
    /\ ProgramInit
    /\ argc = 1
    /\ onFull = "block"
    /\ CallCheckProjectUsage \/ CallSetDefaultBuildType

CMakeNext ==
    \/ check_project_usage
    \/ set_default_build_type

CMakeSpec == CMakeInit /\ [][CMakeNext]_vars

\* ------------------------------------------------------------ properties

\* The positions of the consumption loop.
LoopPcs == {"recv", "print", "reply", "drop"}

\* The places in calls of the main thread's call op on query id.
CallsOf(op, id) ==
    { i \in 1..Len(calls) : calls[i].op = op /\ calls[i].id = id }

\* The places in calls of the main thread's call op, on anything.
CallsNamed(op) == { i \in 1..Len(calls) : calls[i].op = op }

\* The z_query_reply calls made for query id.
RepliesTo(id) == { i \in 1..Len(replies) : replies[i].id = id }

\* The places of id in a sequence of ids.
Places(ids, id) == { i \in 1..Len(ids) : ids[i] = id }

\* The ids of the queries the loop received, in order.
PoppedIds == [ i \in 1..Len(popped) |-> popped[i].id ]

\* The ids in a sequence of ids.
Range(ids) == { ids[i] : i \in 1..Len(ids) }

C2_ReplyOnQueryKeyexpr ==
    \A r \in 1..Len(replies) :
      \A i \in 1..Len(popped) :
        popped[i].id = replies[r].id => replies[r].keyexpr = popped[i].keyexpr

\* C2, amended: each reply is addressed by the key-expression the queryable
\* was declared on, which the answered query's key-expression matches; it is
\* the query's own key-expression only when the two are equal.
C2_ReplyOnDeclaredKeyexpr ==
    \A r \in 1..Len(replies) :
      \A i \in 1..Len(popped) :
        popped[i].id = replies[r].id =>
          /\ replies[r].keyexpr = ke
          /\ ke = keyexpr
          /\ Matches(popped[i].keyexpr, replies[r].keyexpr)

\* C2's case: a reply to a query whose key-expression differs from, and
\* matches, the declared one.
C2_Witness ==
    \E r \in 1..Len(replies) :
      \E i \in 1..Len(popped) :
        /\ popped[i].id = replies[r].id
        /\ popped[i].keyexpr # keyexpr
        /\ Matches(popped[i].keyexpr, keyexpr)

\* C3: the loop pops the queries in the order query_handler pushed them.
C3_FifoOrder ==
    \A i, j \in 1..Len(popped) :
      i < j =>
        \E a \in Places(pushed, popped[i].id) :
          \E b \in Places(pushed, popped[j].id) : a < b

\* C3's case: two queries, pushed one after the other, were both popped.
C3_Witness ==
    /\ Len(pushed) >= 2
    /\ Len(popped) >= 2

LiveSpec == Spec /\ WF_vars(Main)

\* C5: once the channel is closed, a pop() that is waiting returns, pop()
\* returns only the end marker (a query on which z_check is false), and the
\* loop is left: closing leads to the loop being left, or to the process
\* having been ended by a signal meanwhile.
C5_CloseEndsLoop ==
    /\ [](status = "running" /\ pc = "recv" /\ channel = "closed"
            => ENABLED Recv)
    /\ [][ (status = "running" /\ pc = "recv" /\ channel = "closed"
              /\ pc' # pc)
            => (~z_check(oquery') /\ pc' \notin LoopPcs
                 /\ popped' = popped) ]_vars
    /\ (channel = "closed" /\ status = "running")
          ~> (pc \notin LoopPcs \/ status # "running")

\* C5's case: the channel was closed while the loop was running, pop()
\* returned the end marker and the loop was left.
C5_Witness ==
    /\ status = "running"
    /\ pc = "undeclare"
    /\ channel = "closed"
    /\ ~z_check(oquery)

\* C6 as claimed: a process ended by an interrupt that arrived while the
\* loop was serving queries has left the loop and torn down, the queryable
\* undeclared and the session closed.
C6_InterruptThenTeardown ==
    (status = "killed" /\ pc \in LoopPcs)
       => (qable = "undeclared" /\ s = "closed")

\* C7: a set-up call that fails is the last thing the process does: it
\* exits at once with -1, no step is retried, no later step is made, no
\* query is consumed; and the exit code is 0 only after the teardown.
C7_SetupFailureExits ==
    /\ \A i \in 1..Len(rcs) :
         rcs[i].rc < 0 =>
           /\ i = Len(rcs)
           /\ status = "exited"
           /\ exitCode = << -1 >>
           /\ pc = rcs[i].step
    /\ \A i, j \in 1..Len(rcs) : i # j => rcs[i].step # rcs[j].step
    /\ exitCode = << -1 >> =>
         /\ Len(rcs) > 0
         /\ rcs[Len(rcs)].rc < 0
         /\ qable = "none"
         /\ arrived = 0
         /\ popped = << >>
         /\ replies = << >>
    /\ exitCode = << 0 >> =>
         /\ \A i \in 1..Len(rcs) : rcs[i].rc = 0
         /\ pc = "return"
         /\ qable = "undeclared"
         /\ channel = "closed"
         /\ s = "closed"
    /\ (status = "exited") = (exitCode # << >>)

\* C7's case: the last set-up step, declaring the queryable, failed after
\* the earlier ones succeeded, and the process exited.
C7_Witness ==
    /\ status = "exited"
    /\ pc = "declare"
    /\ Len(rcs) >= 3

\* C8 as claimed: when the process has exited, every session that was
\* opened has been closed and every queryable declared has been undeclared.
C8_NoLeakAtExit ==
    status = "exited" => (s # "open" /\ qable # "declared")

\* What the loop did, for all to see, with the i-th query it received: the
\* line it printed, and the key-expression and payload of its reply.
Handling(i) == << stdout[i], replies[i].keyexpr, replies[i].payload >>

\* The value of a query that carries none, and of one that carries a
\* zero-length payload.
AbsentValue == [present |-> FALSE, bytes |-> << >>]
EmptyValue == [present |-> TRUE, bytes |-> << >>]

C10_UndeclareBeforeClose ==
    /\ \A c \in CallsNamed("z_close") :
         \E u \in CallsNamed("z_undeclare_queryable") : u < c
    /\ \A u \in CallsNamed("z_undeclare_queryable") :
         \A i \in 1..Len(calls) :
           i > u => calls[i].op \notin {"recv", "z_query_reply"}
    /\ s = "closed" => qable = "undeclared"
    /\ qable = "undeclared" => pc \notin LoopPcs

\* C10's case: queries were served, then the session was closed.
C10_Witness ==
    /\ s = "closed"
    /\ Len(replies) >= 1

\* CMAKE_BUILD_TYPE in a scope: whether it is defined, and its value.
BuildTypeBinding(scope) ==
    << "CMAKE_BUILD_TYPE" \in DOMAIN scope, Value(scope, "CMAKE_BUILD_TYPE") >>

\* The elements of a CMake list.
Elements(list) == { list[i] : i \in 1..Len(list) }

\* set_default_build_type has ended, normally or on a fatal error.
BuildTypeEnded ==
    /\ cargs.fn = "set_default_build_type"
    /\ cpc \in {"done", "fatal"}

\* C11: set_default_build_type(T) leaves a build type the user chose as it
\* is. With a single-config generator ${CMAKE_BUILD_TYPE} becomes T when it
\* was defined and empty and is unchanged otherwise, and no error is raised.
\* With a multi-config generator it becomes T when it was not defined and
\* is unchanged otherwise, and the configuration stops with a fatal error
\* exactly when the resulting value is not in CMAKE_CONFIGURATION_TYPES.
C11_DefaultBuildTypeKeepsUserChoice ==
    BuildTypeEnded =>
      IF cargs.is_multi_config = "TRUE"
      THEN /\ IF "CMAKE_BUILD_TYPE" \notin DOMAIN cbefore
              THEN Value(cvars, "CMAKE_BUILD_TYPE") = cargs.config_type
              ELSE BuildTypeBinding(cvars) = BuildTypeBinding(cbefore)
           /\ (cpc = "fatal")
                = (Value(cvars, "CMAKE_BUILD_TYPE")
                     \notin Elements(cbefore["CMAKE_CONFIGURATION_TYPES"]))
           /\ cpc = "fatal" => cout[Len(cout)].mode = "FATAL_ERROR"
      ELSE /\ IF BuildTypeBinding(cbefore) = << TRUE, "" >>
              THEN Value(cvars, "CMAKE_BUILD_TYPE") = cargs.config_type
              ELSE BuildTypeBinding(cvars) = BuildTypeBinding(cbefore)
           /\ cpc = "done"

\* C11's case: with a multi-config generator the user chose a build type
\* that is not a configuration type; it was kept, and the configuration
\* stopped.
C11_Witness ==
    /\ BuildTypeEnded
    /\ cargs.is_multi_config = "TRUE"
    /\ cargs.config_type = "Release"
    /\ BuildTypeBinding(cbefore) = << TRUE, "debug" >>
    /\ BuildTypeBinding(cvars) = << TRUE, "debug" >>
    /\ cpc = "fatal"

\* check_project_usage has returned.
UsageEnded ==
    /\ cargs.fn = "check_project_usage"
    /\ cpc = "done"

\* C12: check_project_usage assigns both results; is_root is TRUE exactly
\* when CMAKE_SOURCE_DIR equals CMAKE_CURRENT_SOURCE_DIR, is_ide is TRUE
\* exactly when is_root is and CMAKE_CURRENT_BINARY_DIR is the build
\* subdirectory of CMAKE_CURRENT_SOURCE_DIR; is_ide is never TRUE with
\* is_root FALSE.
C12_ProjectUsageResults ==
    UsageEnded =>
      LET root == cbefore.CMAKE_SOURCE_DIR = cbefore.CMAKE_CURRENT_SOURCE_DIR
          ide == /\ root
                 /\ cbefore.CMAKE_CURRENT_BINARY_DIR
                      = cbefore.CMAKE_CURRENT_SOURCE_DIR \o "/build"
      IN /\ DOMAIN cparent = {cargs.is_root, cargs.is_ide}
         /\ cparent[cargs.is_root] = (IF root THEN "TRUE" ELSE "FALSE")
         /\ cparent[cargs.is_ide] = (IF ide THEN "TRUE" ELSE "FALSE")
         /\ cparent[cargs.is_ide] = "TRUE" => cparent[cargs.is_root] = "TRUE"

\* C12's case: the project is the root one and is built in its build
\* subdirectory: both results are TRUE.
C12_Witness ==
    /\ UsageEnded
    /\ cparent[cargs.is_root] = "TRUE"
    /\ cparent[cargs.is_ide] = "TRUE"

\* The consumer's state: Idle at the top of the loop passes at once into
\* WaitingOnQueue (the call of pop()); Replying lasts until the query is
\* released; Shutdown is the loop left, or the process ended inside it.
ConsumerState ==
    IF status = "killed" /\ pc \in LoopPcs THEN "Shutdown"
    ELSE CASE pc = "recv" -> "WaitingOnQueue"
           [] pc = "print" -> "Processing"
           [] pc \in {"reply", "drop"} -> "Replying"
           [] pc \in {"undeclare", "drop_channel", "close", "return"}
                -> "Shutdown"
           [] OTHER -> "Setup"

\* The moves of the consumer between its states.
ConsumerCycle ==
    { << "Setup", "WaitingOnQueue" >>,
      << "WaitingOnQueue", "Processing" >>,
      << "Processing", "Replying" >>,
      << "Replying", "WaitingOnQueue" >>,
      << "WaitingOnQueue", "Shutdown" >>,
      << "Processing", "Shutdown" >>,
      << "Replying", "Shutdown" >> }

\* One step of the consumer, as C13 has it.
ConsumerStep ==
    /\ ConsumerState' # ConsumerState
         => << ConsumerState, ConsumerState' >> \in ConsumerCycle
    /\ popped' # popped
         => \A i \in 1..Len(popped) :
              /\ RepliesTo(popped[i].id) # {}
              /\ popped[i].id \in released
    /\ (ConsumerState # "Shutdown" /\ ConsumerState' = "Shutdown")
         => \/ status' = "killed"
            \/ /\ ConsumerState = "WaitingOnQueue"
               /\ channel = "closed"
               /\ ~ z_check(oquery')
    /\ ConsumerState = "Shutdown" => ConsumerState' = "Shutdown"

\* C13: the consumer goes round WaitingOnQueue (Idle), Processing,
\* Replying and back only; it pops a query only when every query it popped
\* before has been replied to and released; it leaves the loop only when
\* the process is interrupted or pop() gives the end marker of a closed
\* channel, and never comes back.
C13_ConsumerCycle == [][ConsumerStep]_vars

\* C13's case: the consumer went round the cycle twice and then left the
\* loop on the end marker.
C13_Witness ==
    /\ Len(popped) = 2
    /\ ConsumerState = "Shutdown"
    /\ status = "running"
    /\ channel = "closed"
    /\ ~ z_check(oquery)

\* The ids of the queries query_handler has made a clone of.
Cloned ==
    { id \in 1..arrived : ~ (hpc = "clone" /\ hquery.id = id) }

\* The number of holders of the clone of query id: query_handler's oquery,
\* the entries of the queue, main's oquery.
Holders(id) ==
    (IF hclone.id = id THEN 1 ELSE 0)
      + Cardinality({ i \in 1..Len(queue) : queue[i].id = id })
      + (IF oquery.id = id THEN 1 ELSE 0)

\* Every clone has one holder until it is released and none after.
C14_OneOwner ==
    \A id \in Cloned :
      Holders(id) = (IF id \in released THEN 0 ELSE 1)

\* The main thread releases a clone once at most and makes no call on it
\* afterwards.
C14_NoUseAfterRelease ==
    \A id \in Cloned :
      /\ Cardinality(CallsOf("z_drop", id)) <= 1
      /\ \A d \in CallsOf("z_drop", id) :
           \A j \in (d + 1)..Len(calls) : calls[j].id # id

\* The query loaned to the callback is not released while the callback
\* runs.
C14_LoanNotReleased ==
    hpc # "idle" => (z_check(hquery) /\ hquery.id \notin released)

\* Once main has returned from its teardown, every clone has been released.
C14_ReleasedAtTeardown ==
    (status = "exited" /\ exitCode = << 0 >>) => Cloned \subseteq released

\* C14: every clone has exactly one holder at a time (query_handler, then
\* the queue entry, then the consumer) and is released exactly once: no use
\* after the release, no second release, none left unreleased once the
\* teardown has run; the query loaned to the callback is not released.
C14_ExclusiveOwnership ==
    /\ C14_OneOwner
    /\ C14_NoUseAfterRelease
    /\ C14_LoanNotReleased
    /\ C14_ReleasedAtTeardown

\* C15: the queue made by zc_query_fifo_new(&channel, 16) holds 16 queries
\* at most, however the pushes of the callback and the pops of the loop
\* interleave.
C15_QueueWithinCapacity == Len(queue) <= Capacity

\* C15's case: the queue is full, and a push made on the full queue has
\* returned without the queue growing.
C15_Witness ==
    /\ channel = "open"
    /\ Len(queue) = Capacity
    /\ hpc = "idle"
    /\ pushed = [ i \in 1..Capacity |-> i ]
    /\ arrived = Capacity + 1
    /\ (Capacity + 1) \in released

\* The push of query_handler is waiting: the channel is open, full, and of
\* the blocking kind.
PushWaits ==
    /\ channel = "open"
    /\ Len(queue) = Capacity
    /\ onFull = "block"

\* C16 as stated: pop() is the only operation that can wait; the push of
\* query_handler can return in every state, a full queue included, and so
\* can every other step of the two threads.
C16_OnlyPopBlocks ==
    status = "running" =>
      /\ pc # "recv" => ENABLED Main
      /\ hpc = "clone" => ENABLED HandlerClone
      /\ hpc = "call" => ENABLED HandlerCall

\* C16: pop() waits exactly while the channel is open and empty; the push
\* of query_handler returns without waiting while the queue has room or
\* the channel is closed, and on a full queue it returns at once on a
\* dropping channel and waits for the consumer on a blocking one; no other
\* step of the two threads waits.
C16_PushWaitsOnlyOnFullQueue ==
    status = "running" =>
      /\ pc # "recv" => ENABLED Main
      /\ pc = "recv" =>
           ((ENABLED Recv) = (channel = "closed" \/ queue # << >>))
      /\ hpc = "clone" => ENABLED HandlerClone
      /\ hpc = "call" => ((ENABLED HandlerCall) = ~ PushWaits)

\* C16's case: query_handler is at its push on a full, open, blocking
\* channel, and the loop is busy with a query it popped before.
C16_Witness ==
    /\ status = "running"
    /\ hpc = "call"
    /\ PushWaits
    /\ pc = "print"

\* The last z_query_reply failed.
LastReplyFailed ==
    /\ replies # << >>
    /\ replies[Len(replies)].rc < 0

\* One step of the program, as C17 has it.
ReplyFailureStep ==
    /\ Len(replies') > Len(replies)
         => (pc' = "drop" /\ status' = "running" /\ oquery' = oquery)
    /\ (pc = "drop" /\ LastReplyFailed /\ pc' # pc)
         => (pc' = "recv" /\ oquery.id \in released')
    /\ (pc \in LoopPcs /\ status = "running" /\ status' = "exited") => FALSE

\* C17: whatever z_query_reply returns, the loop goes on to release the
\* query and back to pop(); the program never exits from inside the loop,
\* so queries that come after a failed reply are popped and answered.
C17_ReplyFailureNotFatal == [][ReplyFailureStep]_vars

\* C17's case: the reply to the first query failed; the query was released
\* and the second query was popped and answered, failing too, and released.
C17_Witness ==
    /\ Len(replies) = 2
    /\ replies[1].rc < 0
    /\ replies[2].rc < 0
    /\ replies[1].id # replies[2].id
    /\ { replies[1].id, replies[2].id } \subseteq released
    /\ status = "running"
    /\ pc = "recv"

=============================================================================
